---- MODULE Spec2Model ----
(***************************************************************************)
(* Direct-messaging core of NYU-Marketplace (backend/apps/chat): the       *)
(* relational store (Conversation, ConversationParticipant, Message), the  *)
(* REST actions of ConversationViewSet, the contact-seller action of the   *)
(* listings app and the websocket ChatConsumer with its channel-layer      *)
(* groups.  Strings are sequences of one-character strings, NULL columns   *)
(* hold 0, and every database statement that commits on its own is one     *)
(* step.                                                                   *)
(***************************************************************************)
EXTENDS Integers, Sequences, FiniteSets, TLC

VARIABLES conversations, participants, messages, rowLock, now,
          direct, rest, sess, groups, inbox, received, pager, seen, otp, svc

storeVars == <<conversations, participants, messages, rowLock, now>>
wsVars == <<sess, groups, inbox, received>>
\* the state the chat handlers never touch
sideVars == <<pager, seen, otp, svc>>
vars == <<conversations, participants, messages, rowLock, now,
          direct, rest, sess, groups, inbox, received, pager, seen, otp, svc>>

(* ---------------------------- bounds ----------------------------------- *)
MaxConvs == 2
MaxMsgs == 2
MaxTime == 2
MaxOtpTime == 4
MaxCalls == 6
NumDirectReqs == 2
NumRestReqs == 2
NumSessions == 2

(* ---------------------------- universe --------------------------------- *)
NULL == 0
Anonymous == 0
Users == {2, 3, 10}
ConvIds == 1..MaxConvs
MsgIds == 1..MaxMsgs
DirectReqs == 1..NumDirectReqs
RestReqs == 1..NumRestReqs
Sessions == 1..NumSessions

(* ---------------------------- strings ---------------------------------- *)
Digit(d) == CASE d = 0 -> "0" [] d = 1 -> "1" [] d = 2 -> "2" [] d = 3 -> "3"
              [] d = 4 -> "4" [] d = 5 -> "5" [] d = 6 -> "6" [] d = 7 -> "7"
              [] d = 8 -> "8" [] OTHER -> "9"

DigitVal(ch) == CASE ch = "0" -> 0 [] ch = "1" -> 1 [] ch = "2" -> 2
                  [] ch = "3" -> 3 [] ch = "4" -> 4 [] ch = "5" -> 5
                  [] ch = "6" -> 6 [] ch = "7" -> 7 [] ch = "8" -> 8
                  [] OTHER -> 9

IsDigit(ch) == ch \in {"0", "1", "2", "3", "4", "5", "6", "7", "8", "9"}

\* code point order of the characters that occur in ids and keys
Ord(ch) == IF IsDigit(ch) THEN 48 + DigitVal(ch) ELSE IF ch = ":" THEN 58 ELSE 120

RECURSIVE Str(_)
Str(n) == IF n < 10 THEN <<Digit(n)>> ELSE Str(n \div 10) \o <<Digit(n % 10)>>

RECURSIVE StrLess(_, _)
StrLess(s, t) ==
    IF t = <<>> THEN FALSE
    ELSE IF s = <<>> THEN TRUE
    ELSE IF Ord(Head(s)) # Ord(Head(t)) THEN Ord(Head(s)) < Ord(Head(t))
    ELSE StrLess(Tail(s), Tail(t))

\* int(text) as the integer primary-key field converts a lookup value;
\* -1 stands for the ValueError of a text that is not a number
RECURSIVE ParseInt(_, _)
ParseInt(s, acc) ==
    IF s = <<>> THEN acc
    ELSE IF ~IsDigit(Head(s)) THEN -1
    ELSE ParseInt(Tail(s), 10 * acc + DigitVal(Head(s)))

ToInt(s) == IF s = <<>> THEN -1 ELSE ParseInt(s, 0)

IsSpace(ch) == ch = " "

RECURSIVE LStrip(_)
LStrip(s) == IF s # <<>> /\ IsSpace(Head(s)) THEN LStrip(Tail(s)) ELSE s

RECURSIVE RStrip(_)
RStrip(s) == IF s # <<>> /\ IsSpace(s[Len(s)])
             THEN RStrip(SubSeq(s, 1, Len(s) - 1)) ELSE s

Strip(s) == RStrip(LStrip(s))

(* ---------------------------- models ----------------------------------- *)
make_direct_key(u1_id, u2_id) ==
    LET s1 == Str(u1_id)
        s2 == Str(u2_id)
        a == IF StrLess(s2, s1) THEN s2 ELSE s1
        b == IF StrLess(s2, s1) THEN s1 ELSE s2
    IN a \o <<":">> \o b

ConvByKey(dk) == {c \in conversations : c.direct_key = dk}
UsedConvIds == {c.id : c \in conversations}
PartsOf(cid) == {p \in participants : p.conversation = cid}
PartUsers(cid) == {p.user : p \in PartsOf(cid)}
is_member(uid, cid) == \E p \in participants : p.conversation = cid /\ p.user = uid

NewParticipant(cid, uid) ==
    [conversation |-> cid, user |-> uid, last_read_message |-> NULL, last_read_at |-> NULL]

(* ------------------- POST /chat/conversations/direct ------------------- *)
\* the users that call, the textual forms of peer_id they post (a user's own
\* id, the other user's, one with a leading zero, an unknown id and a text
\* that is no number) and the listings they ask about (29 does not exist)
DirectCallers == {Anonymous, 3, 10}
PeerIdTexts == {<<"3">>, <<"1", "0">>, <<"0", "3">>, <<"7">>, <<"x">>}
Listings == {22, 23}
ListingPks == Listings \cup {29}
ListingOwner(l) == IF l = 22 THEN 3 ELSE 10

IdleDirect ==
    [op |-> "none", user |-> Anonymous, peer |-> 0, dk |-> <<>>, pc |-> "idle",
     conv |-> NULL, created |-> FALSE, refetched |-> FALSE, status |-> 0]

DirectDone(r, st) == direct' = [direct EXCEPT ![r].pc = "done", ![r].status = st]

\* permission check, DirectCreateSerializer.validate and the peer lookup
DirectCall(r, u, peer_id) ==
    /\ direct[r].pc = "idle"
    /\ LET d == [IdleDirect EXCEPT !.op = "direct"]
           pid == ToInt(peer_id)
       IN direct' = [direct EXCEPT ![r] =
            IF u = Anonymous THEN [d EXCEPT !.pc = "done", !.status = 401]
            ELSE IF Str(u) = peer_id THEN [d EXCEPT !.pc = "done", !.status = 400]
            ELSE IF pid = -1 THEN [d EXCEPT !.pc = "done", !.status = 500]
            ELSE IF pid \notin Users THEN [d EXCEPT !.pc = "done", !.status = 404]
            ELSE [d EXCEPT !.pc = "get", !.user = u, !.peer = pid,
                           !.dk = make_direct_key(u, pid)]]
    /\ UNCHANGED <<sideVars, storeVars, rest, wsVars>>

\* get_object on the listing and the owner check of contact_seller
ContactSellerCall(r, u, listing) ==
    /\ direct[r].pc = "idle"
    /\ LET d == [IdleDirect EXCEPT !.op = "contact"]
       IN direct' = [direct EXCEPT ![r] =
            IF u = Anonymous THEN [d EXCEPT !.pc = "done", !.status = 401]
            ELSE IF listing \notin Listings THEN [d EXCEPT !.pc = "done", !.status = 404]
            ELSE IF ListingOwner(listing) = u THEN [d EXCEPT !.pc = "done", !.status = 400]
            ELSE [d EXCEPT !.pc = "get", !.user = u, !.peer = ListingOwner(listing),
                           !.dk = make_direct_key(u, ListingOwner(listing))]]
    /\ UNCHANGED <<sideVars, storeVars, rest, wsVars>>

\* the SELECT ... FOR UPDATE of get_or_create: a hit takes the row lock
\* until the transaction ends, a miss goes on to the INSERT
GetOrCreateGet(r) ==
    /\ direct[r].pc = "get"
    /\ IF ConvByKey(direct[r].dk) # {}
       THEN \E c \in ConvByKey(direct[r].dk) :
              /\ rowLock[c.id] = 0
              /\ rowLock' = [rowLock EXCEPT ![c.id] = r]
              /\ direct' = [direct EXCEPT ![r].pc = "parts", ![r].conv = c.id]
       ELSE /\ direct' = [direct EXCEPT ![r].pc = "create"]
            /\ UNCHANGED rowLock
    /\ UNCHANGED <<sideVars, conversations, participants, messages, now, rest, wsVars>>

UniqueViolationOff(dk) == FALSE

\* the unique index on direct_key refuses a second row with the same key
UniqueViolation(dk) == ConvByKey(dk) # {}

GetOrCreateCreateRaises(r) ==
    /\ direct[r].pc = "create"
    /\ IF UniqueViolation(direct[r].dk)
       THEN /\ DirectDone(r, 500)
            /\ UNCHANGED <<conversations, rowLock>>
       ELSE \E id \in ConvIds \ UsedConvIds :
              /\ conversations' = conversations \cup
                    {[id |-> id, direct_key |-> direct[r].dk,
                      created_by |-> direct[r].user, last_message_at |-> NULL]}
              /\ rowLock' = [rowLock EXCEPT ![id] = r]
              /\ direct' = [direct EXCEPT ![r].pc = "parts", ![r].conv = id,
                                           ![r].created = TRUE]
    /\ UNCHANGED <<sideVars, participants, messages, now, rest, wsVars>>

\* the INSERT of get_or_create; on IntegrityError it fetches the row again
GetOrCreateCreate(r) ==
    /\ direct[r].pc = "create"
    /\ IF UniqueViolation(direct[r].dk)
       THEN \E c \in ConvByKey(direct[r].dk) :
              /\ rowLock[c.id] = 0
              /\ rowLock' = [rowLock EXCEPT ![c.id] = r]
              /\ direct' = [direct EXCEPT ![r].pc = "parts", ![r].conv = c.id,
                                           ![r].refetched = TRUE]
              /\ UNCHANGED conversations
       ELSE \E id \in ConvIds \ UsedConvIds :
              /\ conversations' = conversations \cup
                    {[id |-> id, direct_key |-> direct[r].dk,
                      created_by |-> direct[r].user, last_message_at |-> NULL]}
              /\ rowLock' = [rowLock EXCEPT ![id] = r]
              /\ direct' = [direct EXCEPT ![r].pc = "parts", ![r].conv = id,
                                           ![r].created = TRUE]
    /\ UNCHANGED <<sideVars, participants, messages, now, rest, wsVars>>

EnsureParticipantsOnCreate(r) ==
    /\ direct[r].pc = "parts"
    /\ LET cid == direct[r].conv
           need == IF direct[r].created THEN {direct[r].user, direct[r].peer} ELSE {}
       IN participants' = participants \cup {NewParticipant(cid, uid) : uid \in need}
    /\ rowLock' = [rowLock EXCEPT ![direct[r].conv] = 0]
    /\ DirectDone(r, IF direct[r].op = "direct" /\ direct[r].created THEN 201 ELSE 200)
    /\ UNCHANGED <<sideVars, conversations, messages, now, rest, wsVars>>

\* have / need, the participant inserts, the commit and the response
EnsureParticipants(r) ==
    /\ direct[r].pc = "parts"
    /\ LET cid == direct[r].conv
           have == PartUsers(cid)
           need == {direct[r].user, direct[r].peer} \ have
       IN participants' = participants \cup {NewParticipant(cid, uid) : uid \in need}
    /\ rowLock' = [rowLock EXCEPT ![direct[r].conv] = 0]
    /\ DirectDone(r, IF direct[r].op = "direct" /\ direct[r].created THEN 201 ELSE 200)
    /\ UNCHANGED <<sideVars, conversations, messages, now, rest, wsVars>>

\* the client has its response; the worker takes the next request
DirectReturn(r) ==
    /\ direct[r].pc = "done"
    /\ direct' = [direct EXCEPT ![r] = IdleDirect]
    /\ UNCHANGED <<sideVars, storeVars, rest, wsVars>>

(* ---------------------------- messages --------------------------------- *)
\* request bodies: no text, blank texts, padded texts and plain texts
NoText == <<"<missing>">>
TextInputs == {NoText, <<>>, <<" ">>, <<"h">>, <<" ", "h", " ">>, <<"h", " ", "i">>}

MsgById(id) == {m \in messages : m.id = id}
UsedMsgIds == {m.id : m \in messages}
MsgsOf(cid) == {m \in messages : m.conversation = cid}
CreatedAt(id) == (CHOOSE m \in messages : m.id = id).created_at

\* timezone.now(): the clock reads t, not earlier than its last reading
ClockReads(t) == t \in {now, now + 1} /\ t <= MaxTime /\ now' = t

\* uuid.uuid4: an id no row has yet (ids are only compared for equality, so
\* the least unused one stands for any)
FreshMsgId == CHOOSE id \in MsgIds \ UsedMsgIds : \A o \in MsgIds \ UsedMsgIds : id <= o

CreateMessageOverwrite(id, cid, uid, text) ==
    \E t \in 1..MaxTime :
        /\ ClockReads(t)
        /\ messages' = {m \in messages : m.conversation # cid} \cup
              {[id |-> id, conversation |-> cid, sender |-> uid, text |-> text,
                created_at |-> t]}

\* Message.objects.create: a fresh uuid and auto_now_add created_at
CreateMessage(id, cid, uid, text) ==
    \E t \in 1..MaxTime :
        /\ ClockReads(t)
        /\ messages' = messages \cup
              {[id |-> id, conversation |-> cid, sender |-> uid, text |-> text,
                created_at |-> t]}

\* Conversation.objects.filter(pk=...).update(last_message_at=...)
UpdateLastMessageAt(cid, t) ==
    conversations' = {IF c.id = cid THEN [c EXCEPT !.last_message_at = t] ELSE c :
                      c \in conversations}

(* --------------- conversation-scoped REST actions ---------------------- *)
IdleRest ==
    [op |-> "none", user |-> Anonymous, pk |-> NULL, pc |-> "idle", msg |-> NULL,
     status |-> 0, body |-> <<>>, next_before |-> NULL, limit |-> NULL]

\* IsConversationMember.has_object_permission for a Conversation object
has_object_permission(uid, conv_id) ==
    IF conv_id = NULL THEN FALSE ELSE is_member(uid, conv_id)

\* get_queryset: the conversations that have a participant row of the user
get_queryset(uid) == {c \in conversations : \E p \in PartsOf(c.id) : p.user = uid}

GetObjectStatusOpen(uid, pk) ==
    IF uid = Anonymous THEN 401
    ELSE IF ~\E c \in conversations : c.id = pk THEN 404
    ELSE 0

\* IsAuthenticated, then get_object over get_queryset, then the object
\* permission: the status of the refusal, 0 when the request may go on
GetObjectStatus(uid, pk) ==
    IF uid = Anonymous THEN 401
    ELSE IF ~\E c \in get_queryset(uid) : c.id = pk THEN 404
    ELSE IF ~has_object_permission(uid, pk) THEN 403
    ELSE 0

RestDone(r, op, uid, pk, st, body) ==
    rest' = [rest EXCEPT ![r] = [IdleRest EXCEPT !.op = op, !.user = uid, !.pk = pk,
                                                 !.pc = "done", !.status = st,
                                                 !.body = body]]

\* GET /chat/conversations/<id>/
Retrieve(r, uid, pk) ==
    /\ rest[r].pc = "idle"
    /\ LET st == GetObjectStatus(uid, pk)
       IN RestDone(r, "retrieve", uid, pk, IF st # 0 THEN st ELSE 200, <<>>)
    /\ UNCHANGED <<sideVars, storeVars, direct, wsVars>>

\* the orders in which a query may return the rows S: created_at descending
\* (or ascending), rows of equal created_at in any order
Orderings(S, ascending) ==
    {q \in [1..Cardinality(S) -> S] :
        /\ \A i, j \in 1..Cardinality(S) : i # j => q[i] # q[j]
        /\ \A i, j \in 1..Cardinality(S) : i < j =>
              IF ascending THEN q[i].created_at <= q[j].created_at
                           ELSE q[i].created_at >= q[j].created_at}

Slice(q, limit) == SubSeq(q, 1, IF limit < Len(q) THEN limit ELSE Len(q))

MessagesQueryInclusive(conv, before, after) ==
    IF after # NULL
    THEN {m \in MsgsOf(conv) : m.created_at > after}
    ELSE IF before # NULL
    THEN {m \in MsgsOf(conv) : m.created_at <= before}
    ELSE MsgsOf(conv)

MessagesQueryBeforeFirst(conv, before, after) ==
    IF before # NULL
    THEN {m \in MsgsOf(conv) : m.created_at < before}
    ELSE IF after # NULL
    THEN {m \in MsgsOf(conv) : m.created_at > after}
    ELSE MsgsOf(conv)

\* the query set messages() builds from before and after
MessagesQuery(conv, before, after) ==
    IF after # NULL
    THEN {m \in MsgsOf(conv) : m.created_at > after}
    ELSE IF before # NULL
    THEN {m \in MsgsOf(conv) : m.created_at < before}
    ELSE MsgsOf(conv)

DefaultLimit == 50

\* GET /chat/conversations/<id>/messages; a negative limit is a slice that
\* the query set refuses
MessagesAnswer(r, uid, pk, before, after, limit) ==
    LET st == GetObjectStatus(uid, pk)
       IN IF st # 0 THEN RestDone(r, "messages", uid, pk, st, <<>>)
          ELSE IF limit < 0 THEN RestDone(r, "messages", uid, pk, 500, <<>>)
          ELSE \E q \in Orderings(MessagesQuery(pk, before, after), after # NULL) :
                 LET page == Slice(q, limit)
                 IN rest' = [rest EXCEPT ![r] =
                       [IdleRest EXCEPT !.op = "messages", !.user = uid, !.pk = pk,
                          !.pc = "done", !.status = 200, !.limit = limit,
                          !.body = [i \in 1..Len(page) |-> page[i].id],
                          !.next_before = IF page = <<>> THEN NULL
                                          ELSE page[Len(page)].created_at]]

Messages(r, uid, pk, before, after, limit) ==
    /\ rest[r].pc = "idle"
    /\ MessagesAnswer(r, uid, pk, before, after, limit)
    /\ UNCHANGED <<sideVars, storeVars, direct, wsVars>>

\* the limit query parameter: not given, or a text
NoLimit == <<"<missing>">>
LargeLimit == 1000
LimitTexts == {NoLimit, <<"0">>, <<"1">>, <<"x">>, Str(LargeLimit)}

IntLimitClamped(text) ==
    IF text = NoLimit THEN DefaultLimit
    ELSE IF ToInt(text) > DefaultLimit THEN DefaultLimit ELSE ToInt(text)

\* int(request.query_params.get("limit", 50)); -1 stands for the ValueError
\* of a text that is no number, which is answered like a negative limit
IntLimit(text) == IF text = NoLimit THEN DefaultLimit ELSE ToInt(text)

\* messages() called with a limit parameter as the client writes it
MessagesLimit(r, uid, pk, text) == Messages(r, uid, pk, NULL, NULL, IntLimit(text))

\* datetime.isoformat of next_before and the parsing of the before
\* parameter by the created_at__lt lookup
isoformat(t) == Str(t)
parse_datetime(text) == ToInt(text)

\* a client that pages backward: the pages it got and whether it waits for
\* an answer
NoPages == [pages |-> <<>>, waiting |-> FALSE]

\* the client asks for the next older page: before is the next_before of
\* the page it got last, none on its first call
PagerCall(r, uid, pk, limit) ==
    /\ rest[r].pc = "idle"
    /\ ~pager.waiting
    /\ pager.pages # <<>> => pager.pages[Len(pager.pages)].next_before # <<>>
    /\ MessagesAnswer(r, uid, pk,
          IF pager.pages = <<>> THEN NULL
          ELSE parse_datetime(pager.pages[Len(pager.pages)].next_before),
          NULL, limit)
    /\ pager' = [pager EXCEPT !.waiting = TRUE]
    /\ UNCHANGED <<seen, otp, svc, storeVars, direct, wsVars>>

\* the client takes the answer: the page and its next_before
PagerTake(r) ==
    /\ rest[r].pc = "done"
    /\ rest[r].op = "messages"
    /\ pager.waiting
    /\ pager' = [pages |-> Append(pager.pages,
                     [status |-> rest[r].status,
                      results |-> rest[r].body,
                      next_before |-> IF rest[r].next_before = NULL THEN <<>>
                                      ELSE isoformat(rest[r].next_before)]),
                 waiting |-> FALSE]
    /\ rest' = [rest EXCEPT ![r] = IdleRest]
    /\ UNCHANGED <<seen, otp, svc, storeVars, direct, wsVars>>

\* the serializer's text field hands on the text without surrounding whitespace
TrimmedField(text) == Strip(text)

MessageCreateValidNonEmpty(text) == text # NoText /\ text # <<>>

\* MessageCreateSerializer: the text field refuses a missing or blank text
\* and hands on the trimmed text; validate() refuses a blank text again
MessageCreateValid(text) ==
    /\ text # NoText
    /\ TrimmedField(text) # <<>>
    /\ Strip(TrimmedField(text)) # <<>>

\* POST /chat/conversations/<id>/send: get_object, validation and the INSERT
SendCreate(r, uid, pk, text) ==
    /\ rest[r].pc = "idle"
    /\ LET st == GetObjectStatus(uid, pk)
       IN IF st # 0
          THEN RestDone(r, "send", uid, pk, st, <<>>) /\ UNCHANGED <<messages, now>>
          ELSE IF ~MessageCreateValid(text)
          THEN RestDone(r, "send", uid, pk, 400, <<>>) /\ UNCHANGED <<messages, now>>
          ELSE /\ UsedMsgIds # MsgIds
               /\ CreateMessage(FreshMsgId, pk, uid, Strip(TrimmedField(text)))
               /\ rest' = [rest EXCEPT ![r] =
                     [IdleRest EXCEPT !.op = "send", !.user = uid, !.pk = pk,
                                      !.pc = "update", !.msg = FreshMsgId]]
    /\ UNCHANGED <<sideVars, conversations, participants, rowLock, direct, wsVars>>

SendUpdateBroadcast(r) ==
    /\ rest[r].pc = "update"
    /\ UpdateLastMessageAt(rest[r].pk, CreatedAt(rest[r].msg))
    /\ rest' = [rest EXCEPT ![r].pc = "done", ![r].status = 201,
                            ![r].body = <<rest[r].msg>>]
    /\ LET m == CHOOSE x \in messages : x.id = rest[r].msg
           event == [type |-> "message.new",
                     message |-> [id |-> m.id, conversation |-> m.conversation,
                                  sender |-> m.sender, text |-> m.text,
                                  created_at |-> m.created_at]]
       IN inbox' = [c \in Sessions |->
                      IF c \in groups[rest[r].pk]
                      THEN Append(inbox[c], event) ELSE inbox[c]]
    /\ UNCHANGED <<sideVars, participants, messages, rowLock, now, direct,
                   sess, groups, received>>

\* the UPDATE of last_message_at and the 201 response of send
SendUpdate(r) ==
    /\ rest[r].pc = "update"
    /\ UpdateLastMessageAt(rest[r].pk, CreatedAt(rest[r].msg))
    /\ rest' = [rest EXCEPT ![r].pc = "done", ![r].status = 201,
                            ![r].body = <<rest[r].msg>>]
    /\ UNCHANGED <<sideVars, participants, messages, rowLock, now, direct, wsVars>>

ReadAdvancesOrEqual(part, msg) ==
    \/ part.last_read_message = NULL
    \/ CreatedAt(part.last_read_message) <= msg.created_at

\* the cursor moves only to a message that is strictly later
ReadAdvances(part, msg) ==
    \/ part.last_read_message = NULL
    \/ CreatedAt(part.last_read_message) < msg.created_at

MessageLookupAnyConversation(message_id, pk) == MsgById(message_id)

\* Message.objects.get(pk=message_id, conversation=conv): the rows it matches
MessageLookup(message_id, pk) == {m \in MsgById(message_id) : m.conversation = pk}

\* POST /chat/conversations/<id>/read: get_object, the message and the
\* participant row are fetched and compared
ReadCall(r, uid, pk, message_id) ==
    /\ rest[r].pc = "idle"
    /\ LET st == GetObjectStatus(uid, pk)
           found == MessageLookup(message_id, pk)
       IN IF st # 0 THEN RestDone(r, "read", uid, pk, st, <<>>)
          ELSE IF found = {} THEN RestDone(r, "read", uid, pk, 400, <<>>)
          ELSE IF ~is_member(uid, pk) THEN RestDone(r, "read", uid, pk, 500, <<>>)
          ELSE LET msg == CHOOSE m \in found : TRUE
                   part == CHOOSE p \in PartsOf(pk) : p.user = uid
                   me == [IdleRest EXCEPT !.op = "read", !.user = uid, !.pk = pk,
                                          !.msg = msg.id]
               IN IF ReadAdvances(part, msg)
                  THEN rest' = [rest EXCEPT ![r] = [me EXCEPT !.pc = "save"]]
                  ELSE rest' = [rest EXCEPT ![r] =
                         [me EXCEPT !.pc = "done", !.status = 200,
                                    !.body = <<part.last_read_message>>]]
    /\ UNCHANGED <<sideVars, storeVars, direct, wsVars>>

\* part.save(update_fields=["last_read_message", "last_read_at"])
ReadSave(r) ==
    /\ rest[r].pc = "save"
    /\ \E t \in 1..MaxTime :
         /\ ClockReads(t)
         /\ participants' =
              {IF p.conversation = rest[r].pk /\ p.user = rest[r].user
               THEN [p EXCEPT !.last_read_message = rest[r].msg, !.last_read_at = t]
               ELSE p : p \in participants}
    /\ rest' = [rest EXCEPT ![r].pc = "done", ![r].status = 200,
                            ![r].body = <<rest[r].msg>>]
    /\ UNCHANGED <<sideVars, conversations, messages, rowLock, direct, wsVars>>

\* the orders in which get_queryset may return the conversations S:
\* last_message_at descending (a null last_message_at sorts last), rows of
\* equal last_message_at in any order
ConvOrderings(S) ==
    {q \in [1..Cardinality(S) -> S] :
        /\ \A i, j \in 1..Cardinality(S) : i # j => q[i] # q[j]
        /\ \A i, j \in 1..Cardinality(S) :
              i < j => q[i].last_message_at >= q[j].last_message_at}

\* the entries last_msg_map may hold for a conversation: a message of the
\* greatest created_at, or nothing when there is no message
LatestOf(cid) ==
    IF MsgsOf(cid) = {} THEN {NULL}
    ELSE {m.id : m \in {x \in MsgsOf(cid) :
                          \A o \in MsgsOf(cid) : o.created_at <= x.created_at}}

\* ConversationViewSet.list up to the parts map: the conversations, the
\* last message of each and the caller's participant rows are loaded
ListLoad(r, uid) ==
    /\ rest[r].pc = "idle"
    /\ IF uid = Anonymous
       THEN RestDone(r, "list", uid, NULL, 401, <<>>)
       ELSE \E q \in ConvOrderings(get_queryset(uid)) :
              \E lm \in [{c.id : c \in get_queryset(uid)} -> MsgIds \cup {NULL}] :
                 /\ \A c \in get_queryset(uid) : lm[c.id] \in LatestOf(c.id)
                 /\ rest' = [rest EXCEPT ![r] =
                       [IdleRest EXCEPT !.op = "list", !.user = uid, !.pc = "count",
                          !.body = [i \in 1..Len(q) |->
                             [id |-> q[i].id,
                              lm |-> lm[q[i].id],
                              has_part |-> is_member(uid, q[i].id),
                              cursor |-> IF is_member(uid, q[i].id)
                                         THEN (CHOOSE p \in PartsOf(q[i].id) :
                                                 p.user = uid).last_read_message
                                         ELSE NULL]]]]
    /\ UNCHANGED <<sideVars, storeVars, direct, wsVars>>

\* the unread count list computes for a conversation over the messages M
UnreadCount(M, cid, lm, has_part, cursor) ==
    IF lm = NULL \/ ~has_part THEN 0
    ELSE IF cursor = NULL
    THEN Cardinality({m \in M : m.conversation = cid})
    ELSE Cardinality({m \in M : /\ m.conversation = cid
                                /\ m.created_at > (CHOOSE x \in M : x.id = cursor).created_at})

\* ConversationViewSet.list, the loop over the conversations: the counts
\* are queried and the payload is answered
ListCount(r) ==
    /\ rest[r].pc = "count"
    /\ rest' = [rest EXCEPT ![r].pc = "done", ![r].status = 200,
                  ![r].body = [i \in 1..Len(rest[r].body) |->
                     LET it == rest[r].body[i]
                     IN [id |-> it.id, last_message |-> it.lm,
                         unread_count |->
                            UnreadCount(messages, it.id, it.lm, it.has_part, it.cursor)]]]
    /\ UNCHANGED <<sideVars, storeVars, direct, wsVars>>

\* the client has its response; the worker takes the next request
RestReturn(r) ==
    /\ rest[r].pc = "done"
    /\ rest' = [rest EXCEPT ![r] = IdleRest]
    /\ UNCHANGED <<sideVars, storeVars, direct, wsVars>>

\* the client starts paging from the newest message again
PagerReset ==
    /\ ~pager.waiting
    /\ pager.pages # <<>>
    /\ pager' = NoPages
    /\ UNCHANGED <<seen, otp, svc, storeVars, direct, rest, wsVars>>


(* ---------------------------- websocket -------------------------------- *)
\* the query-string token: absent, not verifiable, or signed for a user id
\* (7 is the id of a user that was deleted after the token was issued)
Tokens == {[kind |-> "none", uid |-> 0], [kind |-> "invalid", uid |-> 0]}
          \cup {[kind |-> "valid", uid |-> u] : u \in Users \cup {7}}

JWTAuthMiddlewareNoLookup(token) ==
    IF token.kind = "none" THEN Anonymous
    ELSE IF token.kind = "invalid" THEN Anonymous
    ELSE token.uid

\* JWTAuthMiddleware.__call__: the user put into the scope
JWTAuthMiddleware(token) ==
    IF token.kind = "none" THEN Anonymous
    ELSE IF token.kind = "invalid" THEN Anonymous
    ELSE IF token.uid \notin Users THEN Anonymous
    ELSE token.uid

\* the close codes of a refused handshake
CloseUnauthenticated == 4001
CloseForbidden == 4003

NewSession ==
    [state |-> "new", user |-> Anonymous, conversation_id |-> NULL,
     group_name |-> FALSE, code |-> 0, checked |-> FALSE, pc |-> "idle", msg |-> NULL]

_is_member_anywhere(uid, conv_id) == \E p \in participants : p.user = uid

\* ChatConsumer._is_member
_is_member(uid, conv_id) ==
    \E p \in participants : p.conversation = conv_id /\ p.user = uid

\* ChatConsumer._serialize
_serialize(m) ==
    [id |-> m.id, conversation |-> m.conversation, sender |-> m.sender,
     text |-> m.text, created_at |-> m.created_at]

\* ChatConsumer.connect behind the authentication middleware
Connect(s, token, conv_id) ==
    /\ sess[s].state = "new"
    /\ LET user == JWTAuthMiddleware(token)
           me == [NewSession EXCEPT !.user = user, !.conversation_id = conv_id]
       IN IF user = Anonymous
          THEN /\ sess' = [sess EXCEPT ![s] =
                     [me EXCEPT !.state = "rejected", !.code = CloseUnauthenticated]]
               /\ UNCHANGED groups
          ELSE IF ~_is_member(user, conv_id)
          THEN /\ sess' = [sess EXCEPT ![s] =
                     [me EXCEPT !.state = "rejected", !.code = CloseForbidden, !.checked = TRUE]]
               /\ UNCHANGED groups
          ELSE /\ groups' = [groups EXCEPT ![conv_id] = @ \cup {s}]
               /\ sess' = [sess EXCEPT ![s] =
                     [me EXCEPT !.state = "joined", !.group_name = TRUE, !.checked = TRUE]]
    /\ UNCHANGED <<sideVars, storeVars, direct, rest, inbox, received>>

DisconnectNoDiscard(s) ==
    /\ sess[s].state \in {"joined", "rejected"}
    /\ sess[s].pc = "idle"
    /\ sess' = [sess EXCEPT ![s].state = "closed"]
    /\ UNCHANGED <<sideVars, storeVars, direct, rest, groups, inbox, received>>

\* ChatConsumer.disconnect, run when the socket goes away
Disconnect(s) ==
    /\ sess[s].state \in {"joined", "rejected"}
    /\ sess[s].pc = "idle"
    /\ groups' = IF sess[s].group_name
                 THEN [groups EXCEPT ![sess[s].conversation_id] = @ \ {s}]
                 ELSE groups
    /\ sess' = [sess EXCEPT ![s].state = "closed"]
    /\ UNCHANGED <<sideVars, storeVars, direct, rest, inbox, received>>

EventTypes == {"message.send", "read.update", "typing"}

HandleJsonAnyType(s, typ, text) ==
    /\ sess[s].state = "joined"
    /\ sess[s].pc = "idle"
    /\ LET stripped == Strip(IF text = NoText THEN <<>> ELSE text)
       IN IF stripped # <<>>
          THEN /\ UsedMsgIds # MsgIds
               /\ CreateMessage(FreshMsgId, sess[s].conversation_id, sess[s].user, stripped)
               /\ sess' = [sess EXCEPT ![s].pc = "created", ![s].msg = FreshMsgId]
          ELSE UNCHANGED <<messages, now, sess>>
    /\ UNCHANGED <<conversations, participants, rowLock, direct, rest,
                   groups, inbox, received>>

HandleJsonErrorOnBlank(s, typ, text) ==
    /\ sess[s].state = "joined"
    /\ sess[s].pc = "idle"
    /\ LET stripped == Strip(IF text = NoText THEN <<>> ELSE text)
       IN IF typ = "message.send" /\ stripped # <<>>
          THEN /\ UsedMsgIds # MsgIds
               /\ CreateMessage(FreshMsgId, sess[s].conversation_id, sess[s].user, stripped)
               /\ sess' = [sess EXCEPT ![s].pc = "created", ![s].msg = FreshMsgId]
               /\ UNCHANGED inbox
          ELSE /\ inbox' = [inbox EXCEPT ![s] = Append(@, [type |-> "error"])]
               /\ UNCHANGED <<messages, now, sess>>
    /\ UNCHANGED <<conversations, participants, rowLock, direct, rest,
                   groups, received>>

\* ChatConsumer.receive_json up to the INSERT of _create_msg
HandleJson(s, typ, text) ==
    /\ sess[s].state = "joined"
    /\ sess[s].pc = "idle"
    /\ LET stripped == Strip(IF text = NoText THEN <<>> ELSE text)
       IN IF typ = "message.send" /\ stripped # <<>>
          THEN /\ UsedMsgIds # MsgIds
               /\ CreateMessage(FreshMsgId, sess[s].conversation_id, sess[s].user, stripped)
               /\ sess' = [sess EXCEPT ![s].pc = "created", ![s].msg = FreshMsgId]
          ELSE UNCHANGED <<messages, now, sess>>
    /\ UNCHANGED <<conversations, participants, rowLock, direct, rest,
                   groups, inbox, received>>

\* an inbound frame of a client
ReceiveJson(s, typ, text) ==
    /\ HandleJson(s, typ, text)
    /\ UNCHANGED sideVars

\* a message.send frame of a client that notes the texts it has sent
ReceiveJsonText(s, text) ==
    /\ HandleJson(s, "message.send", text)
    /\ seen' = [seen EXCEPT ![s] = @ \cup {text}]
    /\ UNCHANGED <<pager, otp, svc>>

\* an inbound frame of a client that notes the event types it has sent
ReceiveJsonSeen(s, typ, text) ==
    /\ HandleJson(s, typ, text)
    /\ seen' = [seen EXCEPT ![s] = @ \cup {typ}]
    /\ UNCHANGED <<pager, otp, svc>>

CreateMsgUpdateSkipped(s) ==
    /\ sess[s].pc = "created"
    /\ sess' = [sess EXCEPT ![s].pc = "send"]
    /\ UNCHANGED <<sideVars, storeVars, direct, rest, groups, inbox, received>>

\* the UPDATE of last_message_at that ends _create_msg
CreateMsgUpdate(s) ==
    /\ sess[s].pc = "created"
    /\ UpdateLastMessageAt(sess[s].conversation_id, CreatedAt(sess[s].msg))
    /\ sess' = [sess EXCEPT ![s].pc = "send"]
    /\ UNCHANGED <<sideVars, participants, messages, rowLock, now, direct, rest,
                   groups, inbox, received>>

GroupSendOthers(s) ==
    /\ sess[s].pc = "send"
    /\ LET m == CHOOSE x \in messages : x.id = sess[s].msg
           event == [type |-> "message.new", message |-> _serialize(m)]
       IN inbox' = [c \in Sessions |->
                      IF c \in groups[sess[s].conversation_id] /\ c # s
                      THEN Append(inbox[c], event) ELSE inbox[c]]
    /\ sess' = [sess EXCEPT ![s].pc = "idle", ![s].msg = NULL]
    /\ UNCHANGED <<sideVars, storeVars, direct, rest, groups, received>>

GroupSendEveryone(s) ==
    /\ sess[s].pc = "send"
    /\ LET m == CHOOSE x \in messages : x.id = sess[s].msg
           event == [type |-> "message.new", message |-> _serialize(m)]
       IN inbox' = [c \in Sessions |->
                      IF \E g \in ConvIds : c \in groups[g]
                      THEN Append(inbox[c], event) ELSE inbox[c]]
    /\ sess' = [sess EXCEPT ![s].pc = "idle", ![s].msg = NULL]
    /\ UNCHANGED <<sideVars, storeVars, direct, rest, groups, received>>

\* channel_layer.group_send: one copy of the event for every channel that
\* is in the group now
GroupSend(s) ==
    /\ sess[s].pc = "send"
    /\ LET m == CHOOSE x \in messages : x.id = sess[s].msg
           event == [type |-> "message.new", message |-> _serialize(m)]
       IN inbox' = [c \in Sessions |->
                      IF c \in groups[sess[s].conversation_id]
                      THEN Append(inbox[c], event) ELSE inbox[c]]
    /\ sess' = [sess EXCEPT ![s].pc = "idle", ![s].msg = NULL]
    /\ UNCHANGED <<sideVars, storeVars, direct, rest, groups, received>>

\* ChatConsumer.message_new: the consumer takes the next event of its
\* channel and writes it to its socket
MessageNew(s) ==
    /\ sess[s].state = "joined"
    /\ sess[s].pc = "idle"
    /\ inbox[s] # <<>>
    /\ received' = [received EXCEPT ![s] = Append(@, Head(inbox[s]))]
    /\ inbox' = [inbox EXCEPT ![s] = Tail(@)]
    /\ UNCHANGED <<sideVars, storeVars, direct, rest, sess, groups>>

(* ---------------------------- verify-otp ------------------------------- *)
\* test@nyu.edu is registered and not verified, ghost@nyu.edu never registered
Emails == {"test@nyu.edu", "ghost@nyu.edu"}
Registered == {"test@nyu.edu"}

\* the codes a client posts: two 6-digit codes, one too short, one not digits
OtpCodes == {<<"0", "0", "0", "0", "0", "0">>, <<"1", "2", "3", "4", "5", "6">>}
OtpInputs == OtpCodes \cup {<<"1", "2", "3", "4", "5">>,
                            <<"1", "2", "3", "4", "5", "x">>}

OTP_LENGTH == 6
\* attempts_count >= 5 blocks
AttemptLimit == 5
\* the clock of the OTP records advances in steps of 12 hours: a block
\* lasts timedelta(hours=24), a cached code (10 minutes) is gone after a step
BlockSteps == 2

\* OTPVerificationSerializer: otp has exactly 6 characters, all digits
OTPVerificationSerializerValid(code) ==
    /\ Len(code) = OTP_LENGTH
    /\ \A i \in 1..Len(code) : IsDigit(code[i])

\* hashlib.sha256(otp).hexdigest(): equal exactly for equal codes
hash_otp(code) == <<"sha256", code>>
verify_otp_hash(code, hashed_otp) == hash_otp(code) = hashed_otp

\* otp_service.verify_otp: the code matches the cached hash, if there is one
verify_otp(stored_hashed_otp, provided_otp) ==
    /\ stored_hashed_otp # <<>>
    /\ verify_otp_hash(provided_otp, stored_hashed_otp)

\* an OTPAttempt row with the defaults of its fields; exists is FALSE until
\* get_or_create inserts the row
NoAttempt ==
    [exists |-> FALSE, attempts_count |-> 0, is_blocked |-> FALSE, blocked_until |-> NULL]

\* calls and status are the client's record: the failed or refused verify
\* calls in a row since the attempts were last reset, and the last response
NoOtp ==
    [attempt |-> [e \in Emails |-> NoAttempt],
     is_active |-> TRUE,
     is_email_verified |-> FALSE,
     cache |-> [e \in Emails |-> <<>>],
     now |-> 1,
     calls |-> [e \in Emails |-> 0],
     status |-> [e \in Emails |-> 0],
     code |-> [e \in Emails |-> <<>>]]

increment_attempt_late(a, t) ==
    LET c == a.attempts_count + 1
    IN IF c > AttemptLimit
       THEN [a EXCEPT !.attempts_count = c, !.is_blocked = TRUE,
                      !.blocked_until = t + BlockSteps]
       ELSE [a EXCEPT !.attempts_count = c]

\* OTPAttempt.increment_attempt
increment_attempt(a, t) ==
    LET c == a.attempts_count + 1
    IN IF c >= AttemptLimit
       THEN [a EXCEPT !.attempts_count = c, !.is_blocked = TRUE,
                      !.blocked_until = t + BlockSteps]
       ELSE [a EXCEPT !.attempts_count = c]

\* OTPAttempt.reset_attempts
reset_attempts(a) ==
    [a EXCEPT !.attempts_count = 0, !.is_blocked = FALSE, !.blocked_until = NULL]

\* OTPAttempt.is_currently_blocked: its answer and the row as it leaves it
\* (a block that ran out is lifted and saved)
is_currently_blocked(a, t) ==
    IF ~a.is_blocked THEN [blocked |-> FALSE, attempt |-> a]
    ELSE IF a.blocked_until # NULL /\ t > a.blocked_until
    THEN [blocked |-> FALSE, attempt |-> reset_attempts(a)]
    ELSE [blocked |-> TRUE, attempt |-> a]

\* AuthViewSet._check_account_blocked: get_or_create, then the check
_check_account_blocked(email) ==
    is_currently_blocked([otp.attempt[email] EXCEPT !.exists = TRUE], otp.now)

\* the client's count of calls in a row starts again when a block is lifted
CallsBase(email, chk) ==
    IF otp.attempt[email].is_blocked /\ ~chk.attempt.is_blocked THEN 0
    ELSE otp.calls[email]

CountCall(n) == IF n < MaxCalls THEN n + 1 ELSE MaxCalls

\* POST /auth/verify-otp
VerifyOtp(email, code) ==
    /\ IF ~OTPVerificationSerializerValid(code)
       THEN otp' = [otp EXCEPT !.status[email] = 400, !.code[email] = code]
       ELSE LET chk == _check_account_blocked(email)
            IN IF chk.blocked
               THEN otp' = [otp EXCEPT !.attempt[email] = chk.attempt,
                                       !.status[email] = 403,
                                       !.code[email] = code,
                                       !.calls[email] = CountCall(@)]
               ELSE IF email \notin Registered
               THEN otp' = [otp EXCEPT !.attempt[email] = chk.attempt,
                                       !.status[email] = 404,
                                       !.code[email] = code,
                                       !.calls[email] = CallsBase(email, chk)]
               ELSE IF ~verify_otp(otp.cache[email], code)
               THEN LET a == increment_attempt(chk.attempt, otp.now)
                    IN otp' = [otp EXCEPT
                         !.attempt[email] = a,
                         !.is_active = IF a.attempts_count >= AttemptLimit
                                       THEN FALSE ELSE @,
                         !.status[email] = IF a.attempts_count >= AttemptLimit
                                           THEN 403 ELSE 400,
                         !.code[email] = code,
                         !.calls[email] = CountCall(CallsBase(email, chk))]
               ELSE otp' = [otp EXCEPT
                         !.attempt[email] = reset_attempts(chk.attempt),
                         !.cache[email] = <<>>,
                         !.is_email_verified = TRUE,
                         !.status[email] = 200,
                         !.code[email] = code,
                         !.calls[email] = 0]
    /\ UNCHANGED <<pager, seen, svc, storeVars, direct, rest, wsVars>>

\* POST /auth/send-otp: a new code is generated, cached and mailed unless
\* the account is blocked or unknown
SendOtp(email, code) ==
    /\ LET chk == _check_account_blocked(email)
       IN otp' = [otp EXCEPT
                    !.attempt[email] = chk.attempt,
                    !.calls[email] = CallsBase(email, chk),
                    !.cache[email] = IF ~chk.blocked /\ email \in Registered
                                     THEN hash_otp(code) ELSE @]
    /\ UNCHANGED <<pager, seen, svc, storeVars, direct, rest, wsVars>>

\* OTPAttemptAdmin.unblock_accounts on the row of one email
UnblockAccounts(email) ==
    /\ otp.attempt[email].exists
    /\ otp' = [otp EXCEPT !.attempt[email] = reset_attempts(@),
                          !.calls[email] = 0]
    /\ UNCHANGED <<pager, seen, svc, storeVars, direct, rest, wsVars>>

\* 12 hours pass: every cached code has timed out
OtpTick ==
    /\ otp.now < MaxOtpTime
    /\ otp' = [otp EXCEPT !.now = @ + 1, !.cache = [e \in Emails |-> <<>>]]
    /\ UNCHANGED <<pager, seen, svc, storeVars, direct, rest, wsVars>>

(* ---------------------------- otp_service ------------------------------ *)
\* the email strings the service is called with: an address, the same
\* address with a capital letter, with a leading blank, and another address
\* (a stands for a@nyu.edu)
EmailStrings == {<<"a">>, <<"A">>, <<" ", "a">>, <<"b">>}

\* str.lower on the letters that occur in the addresses
LowerChar(ch) == IF ch = "A" THEN "a" ELSE IF ch = "B" THEN "b" ELSE ch
lower(text) == [i \in 1..Len(text) |-> LowerChar(text[i])]

_normalized_email(email) == Strip(lower(email))

\* the cache keys otp_<...> that the service builds from these strings
OtpKeys == EmailStrings \cup {_normalized_email(e) : e \in EmailStrings}

\* the cache without entries; op, email, code and ret are the last call
\* of the service and what it returned
NoSvc ==
    [cache |-> [k \in OtpKeys |-> <<>>], op |-> "none", email |-> <<>>,
     code |-> <<>>, ret |-> FALSE]

\* otp_service.store_otp
store_otp(email, code) ==
    /\ svc' = [cache |-> [svc.cache EXCEPT ![_normalized_email(email)] = hash_otp(code)],
               op |-> "store", email |-> email, code |-> code, ret |-> FALSE]
    /\ UNCHANGED <<pager, seen, otp, storeVars, direct, rest, wsVars>>

\* otp_service.get_otp: cache.get gives None (here <<>>) for a missing key
get_otp(email) == svc.cache[_normalized_email(email)]

\* the entry verify_otp deletes after a match
VerifiedKeyNormalized(email) == _normalized_email(email)
VerifiedKey(email) == email

\* otp_service.verify_otp as it is called: lookup, comparison and the
\* delete after a match
VerifyOtpCall(email, code) ==
    /\ IF verify_otp(get_otp(email), code)
       THEN svc' = [cache |-> [svc.cache EXCEPT ![VerifiedKey(email)] = <<>>],
                    op |-> "verify", email |-> email, code |-> code, ret |-> TRUE]
       ELSE svc' = [svc EXCEPT !.op = "verify", !.email = email, !.code = code,
                               !.ret = FALSE]
    /\ UNCHANGED <<pager, seen, otp, storeVars, direct, rest, wsVars>>

\* otp_service.delete_otp
delete_otp(email) ==
    /\ svc' = [cache |-> [svc.cache EXCEPT ![_normalized_email(email)] = <<>>],
               op |-> "delete", email |-> email, code |-> <<>>, ret |-> FALSE]
    /\ UNCHANGED <<pager, seen, otp, storeVars, direct, rest, wsVars>>

\* the timeout of a cache entry runs out
CacheExpire(k) ==
    /\ svc.cache[k] # <<>>
    /\ svc' = [cache |-> [svc.cache EXCEPT ![k] = <<>>],
               op |-> "expire", email |-> <<>>, code |-> <<>>, ret |-> FALSE]
    /\ UNCHANGED <<pager, seen, otp, storeVars, direct, rest, wsVars>>

(* ---------------------------- initial states --------------------------- *)

EmptyStore ==
    /\ conversations = {}
    /\ participants = {}
    /\ messages = {}
    /\ rowLock = [c \in ConvIds |-> 0]
    /\ now = 1

NoRequests ==
    /\ direct = [r \in DirectReqs |-> IdleDirect]
    /\ rest = [r \in RestReqs |-> IdleRest]
    /\ pager = NoPages
    /\ otp = NoOtp
    /\ svc = NoSvc

NoSessions ==
    /\ sess = [s \in Sessions |-> NewSession]
    /\ groups = [c \in ConvIds |-> {}]
    /\ inbox = [s \in Sessions |-> <<>>]
    /\ received = [s \in Sessions |-> <<>>]
    /\ seen = [s \in Sessions |-> {}]

InitDirect == EmptyStore /\ NoRequests /\ NoSessions

NextDirect ==
    \E r \in DirectReqs :
        \/ \E u \in DirectCallers, p \in PeerIdTexts : DirectCall(r, u, p)
        \/ \E u \in DirectCallers, l \in ListingPks : ContactSellerCall(r, u, l)
        \/ GetOrCreateGet(r)
        \/ GetOrCreateCreate(r)
        \/ EnsureParticipants(r)
        \/ DirectReturn(r)

SpecDirect == InitDirect /\ [][NextDirect]_vars

\* users 3 and 10 have their direct conversation; user 2 is in no conversation
DirectStore ==
    /\ conversations = {[id |-> 1, direct_key |-> make_direct_key(3, 10),
                         created_by |-> 3, last_message_at |-> NULL]}
    /\ participants = {NewParticipant(1, 3), NewParticipant(1, 10)}
    /\ messages = {}
    /\ rowLock = [c \in ConvIds |-> 0]
    /\ now = 1

InitRest == DirectStore /\ NoRequests /\ NoSessions

\* user 3 sends to the conversation while user 10 marks messages read from
\* several devices
NextRead ==
    \/ SendCreate(1, 3, 1, <<"h">>)
    \/ SendUpdate(1)
    \/ \E r \in RestReqs :
        \/ \E m \in MsgIds : ReadCall(r, 10, 1, m)
        \/ ReadSave(r)
        \/ RestReturn(r)

SpecRead == InitRest /\ [][NextRead]_vars

\* the ids clients put into a route: conversation 1 and the unknown id 2
RoutePks == {1, 2}

\* the member 3 (served by worker 1), the outsider 2 and an unauthenticated
\* client (served by the other workers) call every conversation-scoped
\* action on the existing conversation and on the unknown one
AccessCaller(r) == IF r = 1 THEN {3} ELSE {Anonymous, 2}
AccessTexts == {<<>>, <<"h">>}

NextAccess ==
    \/ \E r \in RestReqs :
        \/ \E u \in AccessCaller(r), pk \in RoutePks : Retrieve(r, u, pk)
        \/ \E u \in AccessCaller(r), pk \in RoutePks, b \in {NULL, MaxTime} :
              Messages(r, u, pk, b, NULL, DefaultLimit)
        \/ \E u \in AccessCaller(r), pk \in RoutePks, t \in AccessTexts :
              SendCreate(r, u, pk, t)
        \/ SendUpdate(r)
        \/ \E u \in AccessCaller(r), pk \in RoutePks, m \in MsgIds :
              ReadCall(r, u, pk, m)
        \/ ReadSave(r)
        \/ RestReturn(r)

SpecAccess == InitRest /\ [][NextAccess]_vars

\* the two participants open sockets on their conversation from several
\* devices, send events and go away, while user 3 also sends over REST
WsTokens == {[kind |-> "valid", uid |-> 3], [kind |-> "valid", uid |-> 10]}
WsTexts == {NoText, <<" ">>, <<"h">>, <<" ", "h", " ">>}

NextWs ==
    \/ \E s \in Sessions :
        \/ \E tok \in WsTokens : Connect(s, tok, 1)
        \/ \E typ \in EventTypes, t \in WsTexts : ReceiveJson(s, typ, t)
        \/ CreateMsgUpdate(s)
        \/ GroupSend(s)
        \/ MessageNew(s)
        \/ Disconnect(s)
    \/ \E t \in WsTexts : SendCreate(1, 3, 1, t)
    \/ SendUpdate(1)
    \/ RestReturn(1)

SpecWs == InitRest /\ [][NextWs]_vars

\* the same store at the last clock reading of the run: every message that
\* is created carries the one created_at
LateStore ==
    /\ conversations = {[id |-> 1, direct_key |-> make_direct_key(3, 10),
                         created_by |-> 3, last_message_at |-> NULL]}
    /\ participants = {NewParticipant(1, 3), NewParticipant(1, 10)}
    /\ messages = {}
    /\ rowLock = [c \in ConvIds |-> 0]
    /\ now = MaxTime

InitLate == LateStore /\ NoRequests /\ NoSessions

\* the sessions whose clients send; the other sessions only listen
SenderSessions == {1, 2}

\* user 3 is connected from every device, the client of session 2 is either
\* participant
FanoutTokens(s) == {tok \in WsTokens : s # 2 => tok.uid = 3}

NextFanout ==
    \E s \in Sessions :
        \/ \E tok \in FanoutTokens(s) : Connect(s, tok, 1)
        \/ \E typ \in EventTypes : s \in SenderSessions /\ ReceiveJson(s, typ, <<"h">>)
        \/ CreateMsgUpdate(s)
        \/ GroupSend(s)
        \/ MessageNew(s)
        \/ Disconnect(s)

SpecFanout == InitLate /\ [][NextFanout]_vars

\* user 10 sends every kind of text over the socket of session 1, user 3
\* listens on the other sockets and sends every kind of text over REST
BlankToken(s) == [kind |-> "valid", uid |-> IF s = 1 THEN 10 ELSE 3]

NextBlank ==
    \/ \E s \in Sessions :
        \/ Connect(s, BlankToken(s), 1)
        \/ \E typ \in EventTypes, t \in WsTexts : s = 1 /\ ReceiveJson(s, typ, t)
        \/ CreateMsgUpdate(s)
        \/ GroupSend(s)
        \/ MessageNew(s)
        \/ Disconnect(s)
    \/ \E t \in WsTexts : SendCreate(1, 3, 1, t)
    \/ SendUpdate(1)
    \/ RestReturn(1)

SpecBlank == InitLate /\ [][NextBlank]_vars

\* clients with every kind of token open sockets on conversation 1 and on
\* the unknown conversation 2; the client of session 1 sends when it got in
NextHandshake ==
    \E s \in Sessions :
        \/ \E tok \in Tokens, c \in RoutePks : Connect(s, tok, c)
        \/ s = 1 /\ ReceiveJson(s, "message.send", <<"h">>)
        \/ CreateMsgUpdate(s)
        \/ GroupSend(s)
        \/ MessageNew(s)
        \/ Disconnect(s)

SpecHandshake == InitLate /\ [][NextHandshake]_vars

\* user 3 has a direct conversation with user 10 and one with user 2
TwoConversations ==
    /\ conversations = {[id |-> 1, direct_key |-> make_direct_key(3, 10),
                         created_by |-> 3, last_message_at |-> NULL],
                        [id |-> 2, direct_key |-> make_direct_key(2, 3),
                         created_by |-> 2, last_message_at |-> NULL]}
    /\ participants = {NewParticipant(1, 3), NewParticipant(1, 10),
                       NewParticipant(2, 2), NewParticipant(2, 3)}
    /\ messages = {}
    /\ rowLock = [c \in ConvIds |-> 0]
    /\ now = 1

InitCross == TwoConversations /\ NoRequests /\ NoSessions

\* user 3 sends to both conversations and marks messages read in both, with
\* message ids of either conversation and ids that name no message
NextCross ==
    \/ \E pk \in RoutePks : SendCreate(1, 3, pk, <<"h">>)
    \/ SendUpdate(1)
    \/ \E r \in RestReqs :
        \/ \E pk \in RoutePks, m \in MsgIds : r # 1 /\ ReadCall(r, 3, pk, m)
        \/ ReadSave(r)
        \/ RestReturn(r)

SpecCross == InitCross /\ [][NextCross]_vars

\* user 3 sends to the conversation while user 10 marks messages read and
\* lists the conversations
NextUnread ==
    \/ SendCreate(1, 3, 1, <<"h">>)
    \/ SendUpdate(1)
    \/ \E r \in RestReqs :
        \/ \E m \in MsgIds : r # 1 /\ ReadCall(r, 10, 1, m)
        \/ ReadSave(r)
        \/ r # 1 /\ ListLoad(r, 10)
        \/ ListCount(r)
        \/ RestReturn(r)

SpecUnread == InitRest /\ [][NextUnread]_vars

\* the conversation of users 3 and 10 holds a message of user 3, and
\* participant rows of it were removed in the admin site
BrokenStore ==
    /\ conversations = {[id |-> 1, direct_key |-> make_direct_key(3, 10),
                         created_by |-> 3, last_message_at |-> 1]}
    /\ participants \in {{}, {NewParticipant(1, 3)}, {NewParticipant(1, 10)}}
    /\ messages = {[id |-> 1, conversation |-> 1, sender |-> 3, text |-> <<"h">>,
                    created_at |-> 1]}
    /\ rowLock = [c \in ConvIds |-> 0]
    /\ now = 1

\* create-direct calls on an empty store and on the broken one
InitRepair == (EmptyStore \/ BrokenStore) /\ NoRequests /\ NoSessions

SpecRepair == InitRepair /\ [][NextDirect]_vars

\* the limits the paging client asks for
PageLimits == {0, 1, 2}

\* user 10 pages backward through the conversation while user 3 sends
NextPaging ==
    \/ SendCreate(1, 3, 1, <<"h">>)
    \/ SendUpdate(1)
    \/ \E r \in RestReqs :
        \/ \E l \in PageLimits : r # 1 /\ PagerCall(r, 10, 1, l)
        \/ PagerTake(r)
    \/ PagerReset
    \/ RestReturn(1)

SpecPaging == InitRest /\ [][NextPaging]_vars

\* the limits and the timestamps of a client that asks for a window
WindowLimits == {1, DefaultLimit}
WindowTimes == 1..MaxTime

\* user 10 asks for messages with both before and after while both users send
NextWindow ==
    \/ \E u \in {3, 10} : SendCreate(1, u, 1, <<"h">>)
    \/ SendUpdate(1)
    \/ \E b \in WindowTimes, a \in WindowTimes, l \in WindowLimits :
          Messages(2, 10, 1, b, a, l)
    \/ \E r \in RestReqs : RestReturn(r)

SpecWindow == InitRest /\ [][NextWindow]_vars

\* the texts of the events of a client that sends every event type
EventTexts == {NoText, <<"h">>}

\* the participants are connected; the client of session 1 sends events of
\* the types that are not message.send, the client of session 2 sends messages
NextEvents ==
    \E s \in Sessions :
        \/ Connect(s, BlankToken(s), 1)
        \/ \E typ \in EventTypes \ {"message.send"}, t \in EventTexts :
              s = 1 /\ ReceiveJsonSeen(s, typ, t)
        \/ s = 2 /\ ReceiveJsonSeen(s, "message.send", <<"h">>)
        \/ CreateMsgUpdate(s)
        \/ GroupSend(s)
        \/ MessageNew(s)
        \/ Disconnect(s)

SpecEvents == InitLate /\ [][NextEvents]_vars

\* the client of session 1 is user 3 or has no token, the client of
\* session 2 is user 10 or the outsider 2, the other clients are user 10
CloseTokens(s) ==
    IF s = 1 THEN {[kind |-> "valid", uid |-> 3], [kind |-> "none", uid |-> 0]}
    ELSE IF s = 2 THEN {[kind |-> "valid", uid |-> 10], [kind |-> "valid", uid |-> 2]}
    ELSE {[kind |-> "valid", uid |-> 10]}

\* sockets are opened, refused, used for sending and closed
NextClose ==
    \E s \in Sessions :
        \/ \E tok \in CloseTokens(s) : Connect(s, tok, 1)
        \/ s \in SenderSessions /\ ReceiveJson(s, "message.send", <<"h">>)
        \/ CreateMsgUpdate(s)
        \/ GroupSend(s)
        \/ MessageNew(s)
        \/ Disconnect(s)

SpecClose == InitLate /\ [][NextClose]_vars

\* user 3 holds the socket of session 1 and sends over it and over REST,
\* user 10 listens on the other sockets
PushToken(s) == [kind |-> "valid", uid |-> IF s = 1 THEN 3 ELSE 10]
PushTexts == {<<"h">>, <<" ", "h", " ">>}
RestText == <<"r">>

NextPush ==
    \/ \E s \in Sessions :
        \/ Connect(s, PushToken(s), 1)
        \/ \E t \in PushTexts : s = 1 /\ ReceiveJson(s, "message.send", t)
        \/ CreateMsgUpdate(s)
        \/ GroupSend(s)
        \/ MessageNew(s)
        \/ Disconnect(s)
    \/ SendCreate(1, 3, 1, RestText)
    \/ SendUpdate(1)
    \/ RestReturn(1)

SpecPush == InitLate /\ [][NextPush]_vars

\* every operation on the chat data: user 3 opens direct conversations,
\* sends over REST and over the socket of session 1; user 10 marks messages
\* read, lists the conversations and listens on the socket of session 2
AppendPeers == {<<"0", "3">>, <<"1", "0">>}

NextAppend ==
    \/ \E p \in AppendPeers : DirectCall(1, 3, p)
    \/ GetOrCreateGet(1)
    \/ GetOrCreateCreate(1)
    \/ EnsureParticipants(1)
    \/ DirectReturn(1)
    \/ SendCreate(1, 3, 1, RestText)
    \/ SendUpdate(1)
    \/ \E m \in MsgIds : ReadCall(1, 10, 1, m)
    \/ ReadSave(1)
    \/ ListLoad(1, 10)
    \/ ListCount(1)
    \/ RestReturn(1)
    \/ \E s \in SenderSessions :
        \/ Connect(s, PushToken(s), 1)
        \/ s = 1 /\ ReceiveJson(s, "message.send", <<"h">>)
        \/ CreateMsgUpdate(s)
        \/ GroupSend(s)
        \/ MessageNew(s)
        \/ Disconnect(s)

SpecAppend == InitLate /\ [][NextAppend]_vars

NextOtp ==
    \/ \E e \in Emails, c \in OtpInputs : VerifyOtp(e, c)
    \/ \E e \in Emails, c \in OtpCodes : SendOtp(e, c)
    \/ \E e \in Emails : UnblockAccounts(e)
    \/ OtpTick

SpecOtp == InitDirect /\ [][NextOtp]_vars

NextService ==
    \/ \E e \in EmailStrings, c \in OtpCodes : store_otp(e, c)
    \/ \E e \in EmailStrings, c \in OtpCodes : VerifyOtpCall(e, c)
    \/ \E e \in EmailStrings : delete_otp(e)
    \/ \E k \in OtpKeys : CacheExpire(k)

SpecService == InitDirect /\ [][NextService]_vars

\* a timestamp earlier than every reading of the clock
EarlyTime == -1
CursorLimits == {0, 1, DefaultLimit}
CursorTimes == {EarlyTime} \cup (1..MaxTime)

\* user 10 asks for messages with before, with after or with neither while
\* both users send
NextCursor ==
    \/ \E u \in {3, 10} : SendCreate(1, u, 1, <<"h">>)
    \/ SendUpdate(1)
    \/ \E l \in CursorLimits :
          \/ Messages(2, 10, 1, NULL, NULL, l)
          \/ \E b \in CursorTimes : Messages(2, 10, 1, b, NULL, l)
          \/ \E a \in CursorTimes : Messages(2, 10, 1, NULL, a, l)
    \/ \E r \in RestReqs : RestReturn(r)

SpecCursor == InitRest /\ [][NextCursor]_vars

IsBlank(text) == text = NoText \/ Strip(text) = <<>>
DropTexts == {NoText, <<>>, <<" ">>, <<"h">>}

\* the client of session 1 sends message.send frames without text, with an
\* empty and with a blank text, and a real text after one of those
NextDrop ==
    \E s \in Sessions :
        \/ Connect(s, BlankToken(s), 1)
        \/ \E t \in DropTexts :
              /\ s = 1
              /\ ~IsBlank(t) => \E b \in seen[s] : IsBlank(b)
              /\ ReceiveJsonText(s, t)
        \/ CreateMsgUpdate(s)
        \/ GroupSend(s)
        \/ MessageNew(s)
        \/ Disconnect(s)

SpecDrop == InitLate /\ [][NextDrop]_vars

\* user 10 asks for the newest page with every kind of limit while both
\* users send
NextLimit ==
    \/ \E u \in {3, 10} : SendCreate(1, u, 1, <<"h">>)
    \/ SendUpdate(1)
    \/ \E t \in LimitTexts : MessagesLimit(2, 10, 1, t)
    \/ \E r \in RestReqs : RestReturn(r)

SpecLimit == InitRest /\ [][NextLimit]_vars

\* the client of session 2 is user 2 or user 10, every other client is
\* user 3, who is in both conversations
SplitTokens(s) ==
    IF s = 2 THEN {[kind |-> "valid", uid |-> 2], [kind |-> "valid", uid |-> 10]}
    ELSE {[kind |-> "valid", uid |-> 3]}

\* sockets are opened on either conversation, used for sending and closed
NextSplit ==
    \E s \in Sessions :
        \/ \E tok \in SplitTokens(s), pk \in RoutePks : Connect(s, tok, pk)
        \/ s \in SenderSessions /\ ReceiveJson(s, "message.send", <<"h">>)
        \/ CreateMsgUpdate(s)
        \/ GroupSend(s)
        \/ MessageNew(s)
        \/ Disconnect(s)

SpecSplit == InitCross /\ [][NextSplit]_vars

(* ---------------------------- properties ------------------------------ *)
DirectOk(r) == direct[r].pc = "done" /\ direct[r].status \in {200, 201}

DirectKeyUnique ==
    \A c1, c2 \in conversations : c1.direct_key = c2.direct_key => c1 = c2

DirectSameAnswer ==
    \A r1, r2 \in DirectReqs :
        (/\ DirectOk(r1) /\ DirectOk(r2)
         /\ {direct[r1].user, direct[r1].peer} = {direct[r2].user, direct[r2].peer})
        => direct[r1].conv = direct[r2].conv

DirectAnswerStored ==
    \A r \in DirectReqs :
        DirectOk(r) => \E c \in conversations :
                          /\ c.id = direct[r].conv
                          /\ c.direct_key = make_direct_key(direct[r].user, direct[r].peer)
                          /\ c.direct_key = make_direct_key(direct[r].peer, direct[r].user)

ConversationsKept ==
    \A c \in conversations :
        \E d \in conversations' : d.id = c.id /\ d.direct_key = c.direct_key

\* C1: every create-direct call for a pair of users, from either side and
\* over either endpoint, answers with the one stored conversation of the
\* pair; no two rows share a direct_key and a row keeps its id and key.
C1_DirectConversationUnique ==
    /\ [](DirectKeyUnique /\ DirectSameAnswer /\ DirectAnswerStored)
    /\ [][ConversationsKept]_vars

C1_Witness ==
    \E r1, r2 \in DirectReqs :
        /\ DirectOk(r1) /\ DirectOk(r2)
        /\ direct[r1].op = "direct" /\ direct[r1].user = 3 /\ direct[r1].peer = 10
        /\ direct[r2].op = "contact" /\ direct[r2].user = 10 /\ direct[r2].peer = 3
        /\ direct[r1].created /\ ~direct[r2].created
        /\ direct[r1].conv = direct[r2].conv
        /\ Cardinality(conversations) = 1

CreatedAtIn(M, id) == (CHOOSE m \in M : m.id = id).created_at
PartIn(P, cid, uid) == CHOOSE p \in P : p.conversation = cid /\ p.user = uid
CursorTime(P, M, cid, uid) ==
    IF PartIn(P, cid, uid).last_read_message = NULL THEN 0
    ELSE CreatedAtIn(M, PartIn(P, cid, uid).last_read_message)

\* C2: the created_at of a participant's last_read_message never decreases,
\* whatever mark_read calls of that user run and however they interleave.
C2_ReadCursorMonotonic ==
    [][\A p \in participants :
          CursorTime(participants', messages', p.conversation, p.user)
            >= CursorTime(participants, messages, p.conversation, p.user)]_vars

EventsOf(ib, rc, s) == rc[s] \o ib[s]
Events(s) == EventsOf(inbox, received, s)
Count(q, id) == Cardinality({i \in 1..Len(q) : q[i].message.id = id})

\* C3: a message.new event that is in a session's channel or was written to
\* its socket names a stored message of its conversation, and the
\* conversation's last_message_at was already updated for that message.
C3_PersistedBeforeBroadcast ==
    \A s \in Sessions : \A i \in 1..Len(Events(s)) :
        LET e == Events(s)[i].message
        IN /\ \E m \in messages : _serialize(m) = e
           /\ \A c \in conversations : c.id = e.conversation => c.last_message_at # NULL
           /\ ~\E x \in Sessions : sess[x].pc = "created" /\ sess[x].msg = e.id

C3_Witness ==
    \E s \in Sessions :
        /\ Len(received[s]) = 1
        /\ received[s][1].message.sender # sess[s].user
        /\ received[s][1].message.id \in UsedMsgIds

C5_DeliveryInPersistenceOrder ==
    \A s \in Sessions : \A i, j \in 1..Len(received[s]) :
        i < j => received[s][i].message.created_at <= received[s][j].message.created_at

InNoGroup(s) == \A c \in ConvIds : s \notin groups[c]

\* C6: a connection of an authenticated user without a participant row for
\* the conversation of its route is closed with 4003, never accepted and
\* never in a group; every session in a group is a participant's.
C6_NonMemberRejected ==
    /\ \A s \in Sessions :
          (/\ sess[s].state # "new"
           /\ sess[s].user # Anonymous
           /\ ~is_member(sess[s].user, sess[s].conversation_id))
          => /\ sess[s].state \in {"rejected", "closed"}
             /\ sess[s].code = CloseForbidden
             /\ ~sess[s].group_name
             /\ InNoGroup(s)
             /\ inbox[s] = <<>> /\ received[s] = <<>>
    /\ \A c \in ConvIds : \A s \in groups[c] :
          sess[s].conversation_id = c /\ is_member(sess[s].user, c)

C6_Witness ==
    \E s1, s2 \in Sessions :
        /\ sess[s1].state = "rejected" /\ sess[s1].code = CloseForbidden
        /\ sess[s1].user = 2 /\ sess[s1].conversation_id = 1
        /\ sess[s2].code = CloseForbidden
        /\ sess[s2].user = 3 /\ sess[s2].conversation_id = 2

UnverifiedTokens == {tok \in Tokens : tok.kind # "valid" \/ tok.uid \notin Users}

\* C7: a connection without a verified user (no token, an invalid token, a
\* token of a deleted user) is closed with 4001, which is not the non-member
\* code, without a membership check and without joining a group.
C7_UnauthenticatedRejected ==
    /\ [](/\ CloseUnauthenticated # CloseForbidden
          /\ \A s \in Sessions :
               (sess[s].state # "new" /\ sess[s].user = Anonymous)
               => /\ sess[s].state \in {"rejected", "closed"}
                  /\ sess[s].code = CloseUnauthenticated
                  /\ ~sess[s].checked
                  /\ ~sess[s].group_name
                  /\ InNoGroup(s))
    /\ [][\A s \in Sessions, tok \in UnverifiedTokens, c \in ConvIds :
            Connect(s, tok, c) =>
              /\ sess'[s].state = "rejected"
              /\ sess'[s].code = CloseUnauthenticated
              /\ ~sess'[s].checked
              /\ groups' = groups]_vars

C7_Witness ==
    \E s1, s2 \in Sessions :
        /\ sess[s1].state = "rejected" /\ sess[s1].code = CloseUnauthenticated
        /\ sess[s1].conversation_id = 1
        /\ sess[s2].state = "joined" /\ sess[s2].conversation_id = 1

RestRefused(r) == rest'[r].pc = "done" /\ rest'[r].status \in {403, 404}

\* worker r takes a request in this step
RestCalled(r) == rest[r].pc = "idle" /\ rest'[r].pc # "idle"

\* C8: for a user without a participant row in a conversation, retrieve,
\* messages, send and read on it answer 403 or 404 and leave conversations,
\* participants and messages as they were.
C8_NonMemberRestRefused ==
    [][\A r \in RestReqs :
          (/\ RestCalled(r)
           /\ rest'[r].op \in {"retrieve", "messages", "send", "read"}
           /\ rest'[r].user \in Users
           /\ ~is_member(rest'[r].user, rest'[r].pk))
          => RestRefused(r) /\ UNCHANGED <<conversations, participants, messages>>]_vars

C8_Witness ==
    \E r \in RestReqs :
        /\ rest[r].op \in {"send", "read"} /\ rest[r].user = 2 /\ rest[r].pk = 1
        /\ rest[r].status = 404
        /\ messages # {}
        /\ \E p \in participants : p.last_read_message # NULL

Blank(text) == text = NoText \/ Strip(text) = <<>>

\* C9: a send with a missing, empty or whitespace-only text creates no
\* message and leaves last_message_at alone, answered with 400 over REST and
\* dropped on the socket; every stored text is non-empty and trimmed.
C9_BlankTextRejected ==
    /\ [](\A m \in messages : m.text # <<>> /\ m.text # NoText /\ Strip(m.text) = m.text)
    /\ [][\A t \in TextInputs : Blank(t) =>
            /\ \A r \in RestReqs, u \in Users, pk \in ConvIds :
                 (is_member(u, pk) /\ SendCreate(r, u, pk, t))
                 => /\ rest'[r].pc = "done" /\ rest'[r].status = 400
                    /\ UNCHANGED <<conversations, messages>>
            /\ \A s \in Sessions :
                 ReceiveJson(s, "message.send", t)
                 => UNCHANGED <<conversations, messages, inbox, sess>>]_vars

C9_Witness ==
    /\ \E r \in RestReqs : rest[r].op = "send" /\ rest[r].user = 3 /\ rest[r].status = 400
    /\ \E s \in Sessions : sess[s].state = "joined" /\ sess[s].pc = "idle"
    /\ \E m \in messages : m.sender = 10 /\ m.text = <<"h">>

ReadInProgress(uid, pk) ==
    \E q \in RestReqs : rest[q].pc = "save" /\ rest[q].user = uid /\ rest[q].pk = pk

\* C10: when no other mark_read of the participant is running, mark_read
\* with a message that is not later than the recorded one answers 200 with
\* the stored cursor's id and leaves the participant rows unchanged.
C10_MarkReadIdempotent ==
    [][\A r \in RestReqs, u \in Users, pk \in ConvIds, m \in messages :
          (/\ is_member(u, pk)
           /\ m.conversation = pk
           /\ ~ReadInProgress(u, pk)
           /\ PartIn(participants, pk, u).last_read_message # NULL
           /\ m.created_at <= CursorTime(participants, messages, pk, u)
           /\ ReadCall(r, u, pk, m.id))
          => /\ rest'[r].pc = "done" /\ rest'[r].status = 200
             /\ participants' = participants
             /\ rest'[r].body = <<PartIn(participants', pk, u).last_read_message>>]_vars

C10_Witness ==
    \E r \in RestReqs, p \in participants :
        /\ rest[r].op = "read" /\ rest[r].pc = "done" /\ rest[r].status = 200
        /\ rest[r].user = p.user /\ rest[r].pk = p.conversation
        /\ rest[r].msg # p.last_read_message
        /\ rest[r].body = <<p.last_read_message>>
        /\ CreatedAt(rest[r].msg) < CreatedAt(p.last_read_message)
        /\ ~ReadInProgress(p.user, p.conversation)

CursorInOwnConversation ==
    \A p \in participants :
        p.last_read_message # NULL
        => \E m \in messages : m.id = p.last_read_message /\ m.conversation = p.conversation

\* a member's mark_read with an id that names no message of the conversation
\* is answered with status st and leaves the participant rows alone
BadMessageIdAnswered(st) ==
    \A r \in RestReqs, u \in Users, pk \in RoutePks, id \in MsgIds :
        (/\ RestCalled(r)
         /\ is_member(u, pk)
         /\ MessageLookup(id, pk) = {}
         /\ ReadCall(r, u, pk, id))
        => /\ rest'[r].pc = "done" /\ rest'[r].status = st
           /\ participants' = participants

CursorIn(P, cid, uid) == PartIn(P, cid, uid).last_read_message
MsgsIn(M, cid) == {m \in M : m.conversation = cid}

\* the unread count of the claim over the store (P, M)
ClaimedUnread(P, M, cid, uid) ==
    IF CursorIn(P, cid, uid) = NULL THEN Cardinality(MsgsIn(M, cid))
    ELSE Cardinality({m \in MsgsIn(M, cid) :
                        m.created_at > CreatedAtIn(M, CursorIn(P, cid, uid))})

\* what list answers for the conversation when it runs on the store (P, M)
ListedUnread(P, M, cid, uid) ==
    UnreadCount(M, cid, IF MsgsIn(M, cid) = {} THEN NULL
                        ELSE (CHOOSE m \in MsgsIn(M, cid) : TRUE).id,
                TRUE, CursorIn(P, cid, uid))

\* a list call whose loads still agree with the store answers the claimed count
ListAnswersClaimed ==
    \A r \in RestReqs :
        ListCount(r) =>
          \A i \in 1..Len(rest[r].body) :
             LET it == rest[r].body[i]
             IN (/\ (it.lm = NULL) = (MsgsOf(it.id) = {})
                 /\ it.cursor = CursorIn(participants, it.id, rest[r].user))
                => rest'[r].body[i].unread_count =
                     ClaimedUnread(participants, messages, it.id, rest[r].user)

HasReadLatest(p) ==
    p.last_read_message # NULL /\ p.last_read_message \in LatestOf(p.conversation)

\* one more message arrives in the conversation of p
OneMoreArrives(p) ==
    \E m \in messages' : /\ m.conversation = p.conversation
                         /\ m \notin messages
                         /\ messages' = messages \cup {m}

\* C12: unread_count is the number of messages later than the caller's
\* last_read_message (all of them when nothing was read): the total for a
\* never-read participant, 0 once the latest message is marked read, and 1
\* after one more message arrives.
C12_UnreadCount ==
    /\ [](\A p \in participants :
            /\ p.last_read_message = NULL
               => ListedUnread(participants, messages, p.conversation, p.user)
                    = Cardinality(MsgsOf(p.conversation))
            /\ HasReadLatest(p)
               => ListedUnread(participants, messages, p.conversation, p.user) = 0)
    /\ [][/\ ListAnswersClaimed
          /\ \A p \in participants :
               (HasReadLatest(p) /\ OneMoreArrives(p))
               => ListedUnread(participants', messages', p.conversation, p.user) = 1]_vars

\* C13: after a completed create-direct call the conversation it answers
\* has a participant row of the caller and one of the peer, whether the call
\* created the conversation or found it, and no (conversation, user) pair
\* has two participant rows.
C13_BothParticipantsOnce ==
    /\ \A r \in DirectReqs :
          DirectOk(r) => {direct[r].user, direct[r].peer} \subseteq PartUsers(direct[r].conv)
    /\ \A p, q \in participants :
          (p.conversation = q.conversation /\ p.user = q.user) => p = q

C13_Witness ==
    \E r1, r2 \in DirectReqs :
        /\ r1 # r2
        /\ DirectOk(r1) /\ DirectOk(r2)
        /\ ~direct[r1].created /\ ~direct[r2].created
        /\ direct[r1].user = 10 /\ direct[r2].user = 3
        /\ direct[r1].conv = 1 /\ direct[r2].conv = 1
        /\ messages # {}
        /\ PartUsers(1) = {3, 10}

Page(k) == pager.pages[k]
PageIds(k) == {Page(k).results[i] : i \in 1..Len(Page(k).results)}

\* C14: paging backward with each page's next_before as the next before,
\* every page is ordered by created_at non-increasing, each next_before is
\* strictly earlier than those of the earlier pages, no message is in two
\* pages, and the paging ends with an empty page whose next_before is null
\* after at most one call more than there are messages.
C14_BackwardPaging ==
    /\ \A k \in 1..Len(pager.pages) :
          /\ Page(k).status = 200
          /\ \A i, j \in 1..Len(Page(k).results) :
                i < j => CreatedAt(Page(k).results[i]) >= CreatedAt(Page(k).results[j])
          /\ (Page(k).next_before = <<>>) = (Page(k).results = <<>>)
          /\ Page(k).next_before = <<>> => k = Len(pager.pages)
    /\ \A k, l \in 1..Len(pager.pages) :
          k < l => /\ PageIds(k) \cap PageIds(l) = {}
                   /\ Page(l).next_before # <<>>
                      => parse_datetime(Page(l).next_before)
                           < parse_datetime(Page(k).next_before)
    /\ Len(pager.pages) <= Cardinality(MsgsOf(1)) + 1

C14_Witness ==
    /\ Len(pager.pages) = 3
    /\ Len(Page(1).results) = 1 /\ Len(Page(2).results) = 1
    /\ Page(3).results = <<>> /\ Page(3).next_before = <<>>
    /\ ~pager.waiting

\* a call with both before and after is answered as the call with only the
\* parameters kept by keep would be
BothAnsweredAs(keepBefore) ==
    \A r \in RestReqs, u \in Users, pk \in RoutePks,
       b \in WindowTimes, a \in WindowTimes, l \in WindowLimits :
        (/\ RestCalled(r)
         /\ rest'[r].op = "messages" /\ rest'[r].user = u /\ rest'[r].pk = pk
         /\ is_member(u, pk)
         /\ Messages(r, u, pk, b, a, l))
        => IF keepBefore THEN Messages(r, u, pk, b, NULL, l)
                         ELSE Messages(r, u, pk, NULL, a, l)

IgnoredTypes == EventTypes \ {"message.send"}

\* C16: in a joined session an event of an unrecognized type, and the
\* reserved read.update, stores no message, moves no read cursor, broadcasts
\* nothing and leaves the session joined, idle and in its group, so that it
\* receives the later broadcasts.
C16_UnknownEventIgnored ==
    /\ [](\A s \in Sessions :
            sess[s].state = "joined"
            => sess[s].group_name /\ s \in groups[sess[s].conversation_id])
    /\ [][\A s \in Sessions, typ \in IgnoredTypes, t \in TextInputs :
            HandleJson(s, typ, t)
            => /\ UNCHANGED <<storeVars, direct, rest, sess, groups, inbox, received>>
               /\ sess'[s].state = "joined" /\ sess'[s].pc = "idle"]_vars

C16_Witness ==
    \E s \in Sessions :
        /\ seen[s] = IgnoredTypes
        /\ sess[s].state = "joined"
        /\ messages # {}
        /\ \A m \in messages : m.sender # sess[s].user
        /\ Len(received[s]) = Cardinality(messages)

Gone(s) == sess[s].state \in {"rejected", "closed"}

\* C17: a session that is closed (refused at the handshake or disconnected)
\* is in no group and gets no event any more; leaving without a group
\* changes nothing; a session with a stored but not yet broadcast message is
\* still joined, and a disconnect leaves the stored messages and the events
\* of the other sessions as they are.
C17_CleanClose ==
    /\ [](\A s \in Sessions :
            /\ Gone(s) => InNoGroup(s)
            /\ sess[s].pc # "idle" => sess[s].state = "joined")
    /\ [][\A s \in Sessions :
            /\ Gone(s) => inbox'[s] = inbox[s] /\ received'[s] = received[s]
            /\ Disconnect(s)
               => /\ UNCHANGED <<storeVars, inbox, received>>
                  /\ \A c \in ConvIds : groups'[c] = groups[c] \ {s}
                  /\ ~sess[s].group_name => groups' = groups]_vars

C17_Witness ==
    \E s1, s2 \in Sessions :
        /\ sess[s1].state = "closed" /\ sess[s1].group_name
        /\ sess[s2].state = "joined"
        /\ sess[s1].user # sess[s2].user
        /\ Len(received[s2]) = 2
        /\ received[s2][1].message.sender = sess[s1].user
        /\ received[s2][2].message.sender = sess[s2].user
        /\ Count(Events(s1), received[s2][2].message.id) = 0
        /\ \A i \in {1, 2} : \E m \in messages : _serialize(m) = received[s2][i].message

JoinedListeners == {s \in Sessions : sess[s].state = "joined" /\ sess[s].user = 10}
HasEventFor(ib, rc, s, id) == Count(EventsOf(ib, rc, s), id) > 0
RestSendAnswered(r) ==
    rest[r].pc = "update" /\ rest'[r].pc = "done" /\ rest[r].op = "send"
SocketSendDone(s) == sess[s].pc = "send" /\ sess'[s].pc = "idle"

C19_AppendOnly ==
    [][/\ \A m \in messages : m \in messages'
       /\ \A c \in ConvIds : MsgsOf(c) \subseteq {m \in messages' : m.conversation = c}
       /\ Cardinality(messages') >= Cardinality(messages)]_vars

C19_Witness ==
    /\ \E m1, m2 \in messages : m1.text = RestText /\ m2.text = <<"h">> /\ m1.id < m2.id
    /\ \E p \in participants : p.user = 10 /\ p.last_read_message # NULL
    /\ \E s \in Sessions : sess[s].state = "closed"
    /\ direct[1].pc = "done"
    /\ Cardinality(conversations) > 1

\* a counted verify call for email e was answered in this step
VerifyCounted(e) == otp'.calls[e] # otp.calls[e] /\ otp'.calls[e] > 0

C21_VerifiedAtMostOnce ==
    /\ [](svc.op = "verify" /\ svc.ret
            => /\ get_otp(svc.email) = <<>>
               /\ ~verify_otp(get_otp(svc.email), svc.code))
    /\ [][svc'.op = "verify" /\ ~svc'.ret => svc'.cache = svc.cache]_vars

LastMessageAt(cid) == (CHOOSE c \in conversations : c.id = cid).last_message_at

\* C22: in every state that another operation can read or run in, each
\* stored message has its conversation's last_message_at set for it: the
\* insert and the update of last_message_at are never seen apart, on the
\* realtime path or on the REST path.
C22_AppendAtomic ==
    \A m \in messages :
        /\ LastMessageAt(m.conversation) # NULL
        /\ LastMessageAt(m.conversation) >= m.created_at

InGetOrCreate(r) == direct[r].dk # <<>>

\* C23: a create-direct or contact-seller call that reaches get_or_create
\* is answered 200 or 201 with the one conversation of its pair, also when
\* its INSERT met the direct_key of a concurrent caller; a row lock is only
\* held by a request that is about to finish, so no caller waits for ever.
C23_ConflictResolvedInternally ==
    /\ \A r \in DirectReqs :
          (InGetOrCreate(r) /\ direct[r].pc = "done")
          => /\ direct[r].status \in {200, 201}
             /\ ConvByKey(direct[r].dk) = {c \in conversations : c.id = direct[r].conv}
             /\ direct[r].refetched => ~direct[r].created
    /\ \A c \in ConvIds :
          rowLock[c] # 0
          => direct[rowLock[c]].pc = "parts" /\ direct[rowLock[c]].conv = c

C23_Witness ==
    \E r1, r2 \in DirectReqs :
        /\ direct[r1].pc = "done" /\ direct[r1].created /\ direct[r1].status = 201
        /\ direct[r2].pc = "done" /\ direct[r2].refetched /\ direct[r2].status = 200
        /\ direct[r1].dk = direct[r2].dk
        /\ direct[r1].conv = direct[r2].conv
        /\ Cardinality(conversations) = 1

MessagesAnswered(r) ==
    rest[r].op = "messages" /\ rest[r].pc = "done" /\ rest[r].status = 200
PageTimes(r) == {CreatedAt(rest[r].body[i]) : i \in 1..Len(rest[r].body)}

\* C24: in every answer of messages(), next_before is the created_at of the
\* oldest message of the page, and it is null exactly when the page is empty.
C24_NextBeforeIsOldest ==
    \A r \in RestReqs : MessagesAnswered(r) =>
        /\ rest[r].next_before = NULL <=> rest[r].body = <<>>
        /\ rest[r].body # <<>> =>
              /\ rest[r].next_before \in PageTimes(r)
              /\ \A t \in PageTimes(r) : rest[r].next_before <= t

\* session s has just handled a message.send with a text it had not sent yet
SentText(s, t) == t \notin seen[s] /\ t \in seen'[s]

\* C25: handling a message.send without text, or with an empty or blank
\* text, changes nothing: no message is stored, no event of any kind is put
\* on any channel or socket, and the session stays joined in its group;
\* every event there is is a message.new with a text.
C25_BlankSilentlyDropped ==
    /\ [][\A s \in Sessions, t \in DropTexts :
            (SentText(s, t) /\ IsBlank(t))
            => /\ UNCHANGED <<storeVars, wsVars>>
               /\ sess'[s].state = "joined" /\ sess'[s].pc = "idle"
               /\ s \in groups'[sess[s].conversation_id]]_vars
    /\ [](\A s \in Sessions : \A i \in 1..Len(Events(s)) :
            /\ Events(s)[i].type = "message.new"
            /\ Events(s)[i].message.text = <<"h">>)

C25_Witness ==
    /\ {NoText, <<>>, <<" ">>, <<"h">>} \subseteq seen[1]
    /\ sess[1].state = "joined"
    /\ \E s \in Sessions \ {1} :
          /\ sess[s].state = "joined"
          /\ Len(received[s]) = 1 /\ received[s] = received[1]
          /\ received[s][1].message.text = <<"h">>
    /\ Cardinality(messages) = 1

\* C26: a page never holds more messages than the limit of its query; the
\* limit is 50 when none is given, and a limit larger than the maximum page
\* size is not applied as asked but clamped.
C26_LimitClamped ==
    /\ [](\A r \in RestReqs : MessagesAnswered(r) =>
            /\ Len(rest[r].body) <= rest[r].limit
            /\ rest[r].limit < LargeLimit)
    /\ [][\A r \in RestReqs :
            (MessagesLimit(r, 10, 1, NoLimit) /\ MessagesAnswered(r)')
            => rest'[r].limit = DefaultLimit]_vars

NoAppendInProgress ==
    /\ \A s \in Sessions : sess[s].pc # "created"
    /\ \A r \in RestReqs : rest[r].pc # "update"

\* C27: whenever no append is between its insert and its update, the
\* last_message_at of every conversation is the largest created_at of its
\* messages, and null exactly when it has none.
C27_LastMessageAtIsNewest ==
    NoAppendInProgress =>
        \A c \in conversations :
            /\ c.last_message_at = NULL <=> MsgsOf(c.id) = {}
            /\ \A m \in MsgsOf(c.id) : m.created_at <= c.last_message_at
            /\ MsgsOf(c.id) # {} => \E m \in MsgsOf(c.id) : m.created_at = c.last_message_at

\* C28: every message.new event on a session's channel or socket is for a
\* message of the conversation that session joined; a broadcast adds events
\* only to the sessions that are in the group of the message's conversation
\* at that moment, so a session of another conversation, a refused session
\* and a closed session get none.
C28_OnlyGroupMembersReceive ==
    /\ [](\A s \in Sessions :
            /\ \A i \in 1..Len(Events(s)) :
                  /\ Events(s)[i].message.conversation = sess[s].conversation_id
                  /\ sess[s].group_name
            /\ sess[s].state = "rejected" => Events(s) = <<>>)
    /\ [][\A s \in Sessions : sess[s].pc = "send" /\ sess'[s].pc = "idle" =>
            \A c \in Sessions :
                IF c \in groups[sess[s].conversation_id]
                THEN Len(inbox'[c]) = Len(inbox[c]) + 1
                ELSE inbox'[c] = inbox[c] /\ received'[c] = received[c]]_vars

C28_Witness ==
    \E s1, s2 \in Sessions :
        /\ sess[s1].state = "joined" /\ sess[s1].conversation_id = 1
        /\ sess[s2].state = "joined" /\ sess[s2].conversation_id = 2
        /\ Len(received[s1]) = 1 /\ received[s1][1].message.conversation = 1
        /\ Len(received[s2]) = 1 /\ received[s2][1].message.conversation = 2
        /\ received[s2][1].message.id < received[s1][1].message.id
        /\ inbox[s1] = <<>> /\ inbox[s2] = <<>>

\* the limits of a client that reads the whole history
HistoryLimits == {1, 2}

\* user 3 sends to the conversation, then user 10 pages backward through it;
\* nothing is appended once the paging has begun
NextHistory ==
    \/ pager = NoPages /\ SendCreate(1, 3, 1, <<"h">>)
    \/ SendUpdate(1)
    \/ \E r \in RestReqs :
        \/ \E l \in HistoryLimits : r # 1 /\ PagerCall(r, 10, 1, l)
        \/ PagerTake(r)
    \/ PagerReset
    \/ RestReturn(1)

SpecHistory == InitRest /\ [][NextHistory]_vars

\* the paging has reached its end: the last page taken is empty
PagingEnded ==
    /\ pager.pages # <<>>
    /\ ~pager.waiting
    /\ Page(Len(pager.pages)).results = <<>>

\* the places of the pages where message id stands
PlacesOf(id) ==
    {<<k, i>> \in (1..Len(pager.pages)) \X (1..MaxMsgs + 1) :
        i <= Len(Page(k).results) /\ Page(k).results[i] = id}

\* C29: when a client has paged backward with a positive limit until the
\* empty page and no message was appended meanwhile, every message of the
\* conversation stands in the pages exactly once, also when several
\* messages share one created_at across a page boundary.
C29_EveryMessageExactlyOnce ==
    PagingEnded =>
        \A m \in MsgsOf(1) : Cardinality(PlacesOf(m.id)) = 1

\* the conversation row is committed: no request that created it is still
\* inside its transaction
Committed(c) ==
    \A r \in DirectReqs :
        ~(direct[r].pc = "parts" /\ direct[r].created /\ direct[r].conv = c.id)

\* C30: every committed conversation created through create-direct or
\* contact-seller has exactly two participant rows, for two distinct users
\* whose ids form its direct_key; no request, whatever the textual form of
\* its peer_id, creates a conversation of a user with themself.
C30_TwoDistinctParticipants ==
    /\ \A c \in conversations :
          Committed(c) =>
              /\ Cardinality(PartsOf(c.id)) = 2
              /\ \E u1, u2 \in Users :
                    /\ u1 # u2
                    /\ PartUsers(c.id) = {u1, u2}
                    /\ c.direct_key = make_direct_key(u1, u2)
    /\ \A r \in DirectReqs :
          direct[r].created => direct[r].user # direct[r].peer

====
